---- MODULE Spec2Model ----
(***************************************************************************)
(* Model of mercury_api.api_client.MercuryApiClient and of the dataclasses *)
(* of mercury_api.transactions_data_models it builds from responses.       *)
(*                                                                         *)
(* Python strings are sequences of tokens.  The characters '?' and '&'     *)
(* are always tokens of their own, so str.replace("?&", "?") and           *)
(* str.replace("?", "") act on token sequences exactly as they act on the  *)
(* characters.  Python values are tagged records: None, int, str, date.    *)
(***************************************************************************)
EXTENDS Integers, Sequences, FiniteSets, TLC

\* ------------------------------------------------------------------ bounds
MaxClients == 2      \* client instances constructed in one process
MaxAccounts == 2     \* length of the `accounts` array of a response
MaxItems == 1        \* length of the other list responses
MaxList == 2         \* length of the list responses of a client used alone
MaxThreads == 2      \* threads that call get_accounts on one client

\* ----------------------------------------------------------- Python values
None == [none |-> TRUE]
PyInt(n) == [int |-> n]
PyStr(s) == [str |-> s]
PyDate(y, m, d) == [date |-> <<y, m, d>>]
PyObj(d) == [dict |-> d]
PyBool(b) == [bool |-> b]

IsNone(v) == DOMAIN v = {"none"}
IsInt(v) == DOMAIN v = {"int"}
IsStr(v) == DOMAIN v = {"str"}
IsDate(v) == DOMAIN v = {"date"}
IsObj(v) == DOMAIN v = {"dict"}
IsBool(v) == DOMAIN v = {"bool"}

\* bool(v): None, 0 and "" are falsy; dates and plain objects are truthy
Truthy_notnone(v) == ~IsNone(v)

Truthy(v) ==
  CASE IsNone(v) -> FALSE
    [] IsInt(v) -> v.int # 0
    [] IsStr(v) -> v.str # <<>>
    [] IsBool(v) -> v.bool
    [] OTHER -> TRUE

Digit(n) == <<"0", "1", "2", "3", "4", "5", "6", "7", "8", "9">>[n + 1]

RECURSIVE Digits(_)
Digits(n) == IF n < 10 THEN <<Digit(n)>> ELSE Digits(n \div 10) \o <<Digit(n % 10)>>

RECURSIVE ZeroPad(_, _)
ZeroPad(s, w) == IF Len(s) >= w THEN s ELSE ZeroPad(<<"0">> \o s, w)

\* str(v) as used by an f-string
Format(v) ==
  CASE IsNone(v) -> <<"None">>
    [] IsInt(v) -> IF v.int < 0 THEN <<"-">> \o Digits(0 - v.int) ELSE Digits(v.int)
    [] IsStr(v) -> v.str
    [] IsDate(v) -> ZeroPad(Digits(v.date[1]), 4) \o <<"-">>
                      \o ZeroPad(Digits(v.date[2]), 2) \o <<"-">>
                      \o ZeroPad(Digits(v.date[3]), 2)

\* str.replace(old, new): the non-overlapping occurrences, left to right
RECURSIVE Replace(_, _, _)
Replace(s, old, new) ==
  IF Len(s) < Len(old) THEN s
  ELSE IF SubSeq(s, 1, Len(old)) = old
       THEN new \o Replace(SubSeq(s, Len(old) + 1, Len(s)), old, new)
       ELSE <<Head(s)>> \o Replace(Tail(s), old, new)

\* ------------------------------------------------------------- dataclasses
EmptyDict == [k \in {} |-> None]

AccountClass ==
  [fields |-> {"accountNumber", "availableBalance", "createdAt", "currentBalance",
               "id", "kind", "name", "routingNumber", "status", "type",
               "legalBusinessName", "dashboardLink", "canReceiveTransactions",
               "nickname"},
   defaults |-> [canReceiveTransactions |-> None, nickname |-> None]]

CardClass ==
  [fields |-> {"cardId", "createdAt", "lastFourDigits", "nameOnCard", "network",
               "status", "physicalCardStatus"},
   defaults |-> [physicalCardStatus |-> None]]

TransactionClass ==
  [fields |-> {"amount", "bankDescription", "counterpartyId", "counterpartyName",
               "counterpartyNickname", "createdAt", "dashboardLink", "details",
               "estimatedDeliveryDate", "failedAt", "id", "kind", "note",
               "externalMemo", "postedAt", "reasonForFailure", "status", "feeId",
               "currencyExchangeInfo", "compliantWithReceiptPolicy",
               "hasGeneratedReceipt", "creditAccountPeriodId", "mercuryCategory",
               "generalLedgerCodeName", "attachments"},
   defaults |-> EmptyDict]

StatementClass ==
  [fields |-> {"id", "accountNumber", "companyLegalAddress", "companyLegalName",
               "ein", "endDate", "endingBalance", "routingNumber", "startDate",
               "transactions", "downloadUrl"},
   defaults |-> EmptyDict]

Required(cls) == cls.fields \ DOMAIN cls.defaults

\* the generated __init__ accepts exactly the declared fields as keywords and
\* needs every field without a default; values are stored as given
CanNew_lenient(cls, kw) == Required(cls) \subseteq DOMAIN kw

CanNew(cls, kw) == DOMAIN kw \subseteq cls.fields /\ Required(cls) \subseteq DOMAIN kw

New_defaults(cls, kw) ==
  [f \in cls.fields |-> IF f \in DOMAIN cls.defaults THEN cls.defaults[f] ELSE kw[f]]

New(cls, kw) == [f \in cls.fields |-> IF f \in DOMAIN kw THEN kw[f] ELSE cls.defaults[f]]

\* NewTransactionPayload(recipientId, amount, idempotencyKey, ...).__dict__
NewTransactionPayload(recipientId, amount, idempotencyKey, paymentMethod, note, externalMemo) ==
  PyObj([recipientId |-> recipientId, amount |-> amount,
       idempotencyKey |-> idempotencyKey, paymentMethod |-> paymentMethod,
       note |-> note, externalMemo |-> externalMemo])

TransactionApprovalRequestClass ==
  [fields |-> {"accountId", "requestId", "recipientId", "memo", "paymentMethod",
               "amount", "status"},
   defaults |-> EmptyDict]

NewTransactionPayloadClass ==
  [fields |-> {"recipientId", "amount", "idempotencyKey", "paymentMethod", "note",
               "externalMemo"},
   defaults |-> [paymentMethod |-> PyStr(<<"ach">>), note |-> None, externalMemo |-> None]]

\* TransactionParams: class-level defaults, overridden by instance attributes
TransactionParams ==
  [limit |-> PyInt(500), offset |-> PyInt(0), status |-> None, start |-> None,
   end |-> None, search |-> None]

\* ------------------------------------------------------------------- state
VARIABLES
  _token,     \* _token[c]: instance attribute set by __init__ of client c
  base_url,   \* base_url[c]: what self.base_url evaluates to on client c
  accounts,   \* MercuryApiClient.accounts, the list object of the class body
  last,       \* the most recent call on a client, with what it did
  threads     \* threads[t]: where thread t stands inside its get_accounts call

vars == <<_token, base_url, accounts, last, threads>>

clients == DOMAIN _token

\* class attribute: base_url = "https://api.mercury.com"
DefaultBaseUrl == PyStr(<<"https://api.mercury.com">>)

\* default of the timeout parameter of _make_request
Timeout == 10

\* --------------------------------------------------------------- transport
\* What requests.get / requests.post answer: the call raises, or returns a
\* response whose json() raises, or returns a response whose json() is `body`.
NoException == "returned"

\* a thread that has not called yet
NotCalled ==
  [pc |-> "start", raced |-> FALSE, todo |-> <<>>, answered |-> <<>>, appended |-> 0,
   exc |-> NoException, value |-> <<>>]

NoThreads == [t \in 1..MaxThreads |-> NotCalled]

\* headers = {"Authorization": f"Bearer {self._token}", "accept": "application/json"}
Headers_shared(self) ==
  [Authorization |-> <<"Bearer ">> \o Format(_token[1]),
   accept |-> <<"application/json">>]

Headers(self) ==
  [Authorization |-> <<"Bearer ">> \o Format(_token[self]),
   accept |-> <<"application/json">>]

\* requests.get(...) / requests.post(...): one call, which raises or answers
Transport_retry(call, reply) ==
  IF reply.kind = "error"
  THEN [exc |-> "RequestException", calls |-> <<call, call>>]
  ELSE [exc |-> NoException, calls |-> <<call>>]

Transport(call, reply) ==
  [exc |-> IF reply.kind = "error" THEN "RequestException" ELSE NoException,
   calls |-> <<call>>]

\* if not payload or not payload.__dict__
PayloadMissing_none(payload) == ~Truthy(payload)

PayloadMissing(payload) == ~Truthy(payload) \/ DOMAIN payload.dict = {}

_make_request_dropnull(self, url, request_type, payload, reply) ==
  LET call(m, j) == [method |-> m, url |-> url, headers |-> Headers(self),
                     timeout |-> Timeout, json |-> j]
      set == {k \in DOMAIN payload.dict : ~IsNone(payload.dict[k])}
  IN IF request_type = "get"
     THEN Transport(call("get", None), reply)
     ELSE IF PayloadMissing(payload)
          THEN [exc |-> "ValueError", calls |-> <<>>]
          ELSE Transport(call("post", [k \in set |-> payload.dict[k]]), reply)

\* _make_request: builds the headers and performs at most one transport call
_make_request(self, url, request_type, payload, reply) ==
  LET call(m, j) == [method |-> m, url |-> url, headers |-> Headers(self),
                     timeout |-> Timeout, json |-> j]
  IN IF request_type = "get"
     THEN Transport(call("get", None), reply)
     ELSE IF PayloadMissing(payload)
          THEN [exc |-> "ValueError", calls |-> <<>>]
          ELSE Transport(call("post", payload.dict), reply)

\* self._make_request(...).json()
request_json_swallow(self, url, request_type, payload, reply) ==
  LET r == _make_request(self, url, request_type, payload, reply)
  IN IF r.exc # NoException THEN [exc |-> NoException, calls |-> r.calls, body |-> EmptyDict]
     ELSE IF reply.kind = "notjson"
          THEN [exc |-> "JSONDecodeError", calls |-> r.calls, body |-> EmptyDict]
          ELSE [exc |-> NoException, calls |-> r.calls, body |-> reply.body]

request_json_raise_for_status(self, url, request_type, payload, reply) ==
  LET r == _make_request(self, url, request_type, payload, reply)
  IN IF r.exc # NoException THEN [exc |-> r.exc, calls |-> r.calls, body |-> EmptyDict]
     ELSE IF reply.status >= 400
          THEN [exc |-> "HTTPError", calls |-> r.calls, body |-> EmptyDict]
          ELSE IF reply.kind = "notjson"
               THEN [exc |-> "JSONDecodeError", calls |-> r.calls, body |-> EmptyDict]
               ELSE [exc |-> NoException, calls |-> r.calls, body |-> reply.body]

request_json(self, url, request_type, payload, reply) ==
  LET r == _make_request(self, url, request_type, payload, reply)
  IN IF r.exc # NoException THEN [exc |-> r.exc, calls |-> r.calls, body |-> EmptyDict]
     ELSE IF reply.kind = "notjson"
          THEN [exc |-> "JSONDecodeError", calls |-> r.calls, body |-> EmptyDict]
          ELSE [exc |-> NoException, calls |-> r.calls, body |-> reply.body]

\* [Cls(**item) for item in items]: every item, or the first TypeError
RECURSIVE ParseList_skip(_, _)
ParseList_skip(cls, items) ==
  IF items = <<>> THEN [exc |-> NoException, value |-> <<>>]
  ELSE LET rest == ParseList_skip(cls, Tail(items))
       IN IF ~CanNew(cls, Head(items)) THEN rest
          ELSE [exc |-> NoException, value |-> <<New(cls, Head(items))>> \o rest.value]

RECURSIVE ParseList(_, _)
ParseList(cls, items) ==
  IF items = <<>> THEN [exc |-> NoException, value |-> <<>>]
  ELSE IF ~CanNew(cls, Head(items)) THEN [exc |-> "TypeError", value |-> <<>>]
       ELSE LET rest == ParseList(cls, Tail(items))
            IN IF rest.exc # NoException THEN rest
               ELSE [exc |-> NoException, value |-> <<New(cls, Head(items))>> \o rest.value]

\* ------------------------------------------------------------ get_accounts
\* for account in response["accounts"]: self.accounts.append(Account(**account))
RECURSIVE AppendAccounts_front(_, _)
AppendAccounts_front(cache, items) ==
  IF items = <<>> THEN [exc |-> NoException, accounts |-> cache]
  ELSE IF ~CanNew(AccountClass, Head(items)) THEN [exc |-> "TypeError", accounts |-> cache]
       ELSE AppendAccounts_front(<<New(AccountClass, Head(items))>> \o cache, Tail(items))

RECURSIVE AppendAccounts_skip(_, _)
AppendAccounts_skip(cache, items) ==
  IF items = <<>> THEN [exc |-> NoException, accounts |-> cache]
  ELSE IF ~CanNew(AccountClass, Head(items)) THEN AppendAccounts_skip(cache, Tail(items))
       ELSE AppendAccounts_skip(Append(cache, New(AccountClass, Head(items))), Tail(items))

RECURSIVE AppendAccounts(_, _)
AppendAccounts(cache, items) ==
  IF items = <<>> THEN [exc |-> NoException, accounts |-> cache]
  ELSE IF ~CanNew(AccountClass, Head(items)) THEN [exc |-> "TypeError", accounts |-> cache]
       ELSE AppendAccounts(Append(cache, New(AccountClass, Head(items))), Tail(items))

\* if len(self.accounts) > 0: return self.accounts
CacheHit_never(cache) == FALSE

CacheHit_full(cache) == Len(cache) > 1

CacheHit_notnone(cache) == TRUE

CacheHit(cache) == Len(cache) > 0

\* self.accounts is never assigned on the instance, so it is the class's list
get_accounts(self, reply) ==
  IF CacheHit(accounts)
  THEN [exc |-> NoException, value |-> accounts, calls |-> <<>>, accounts |-> accounts]
  ELSE LET url == Format(base_url[self]) \o <<"/api/v1/accounts">>
           r == request_json(self, url, "get", None, reply)
       IN IF r.exc # NoException
          THEN [exc |-> r.exc, value |-> <<>>, calls |-> r.calls, accounts |-> accounts]
          ELSE IF "accounts" \notin DOMAIN r.body
               THEN [exc |-> "KeyError", value |-> <<>>, calls |-> r.calls,
                     accounts |-> accounts]
               ELSE LET a == AppendAccounts(accounts, r.body.accounts)
                    IN [exc |-> a.exc,
                        value |-> IF a.exc = NoException THEN a.accounts ELSE <<>>,
                        calls |-> r.calls, accounts |-> a.accounts]

\* for account in self.accounts: if account.id == account_id: return account
FindAccount_head(cache, account_id) ==
  LET hits == {i \in 1..Len(cache) : cache[i].id = account_id}
  IN IF hits = {} THEN None ELSE cache[1]

FindAccount(cache, account_id) ==
  LET hits == {i \in 1..Len(cache) : cache[i].id = account_id}
  IN IF hits = {} THEN None
     ELSE cache[CHOOSE i \in hits : \A j \in hits : i <= j]

get_account_by_id(self, account_id, reply) ==
  IF Len(accounts) = 0
  THEN LET g == get_accounts(self, reply)
       IN IF g.exc # NoException
          THEN [exc |-> g.exc, value |-> None, calls |-> g.calls, accounts |-> g.accounts]
          ELSE IF Len(g.value) = 0
               THEN [exc |-> NoException, value |-> None, calls |-> g.calls,
                     accounts |-> g.accounts]
               ELSE [exc |-> NoException, value |-> FindAccount(g.accounts, account_id),
                     calls |-> g.calls, accounts |-> g.accounts]
  ELSE [exc |-> NoException, value |-> FindAccount(accounts, account_id),
        calls |-> <<>>, accounts |-> accounts]

\* ------------------------------------------------------- other operations
AccountPath(self, account_id) ==
  Format(base_url[self]) \o <<"/api/v1/account/">> \o Format(account_id)

\* response[key] of a parsed body, then the list comprehension over cls
ParseKey(r, key, cls) ==
  IF r.exc # NoException THEN [exc |-> r.exc, value |-> <<>>, calls |-> r.calls]
  ELSE IF key \notin DOMAIN r.body
       THEN [exc |-> "KeyError", value |-> <<>>, calls |-> r.calls]
       ELSE LET l == ParseList(cls, r.body[key])
            IN [exc |-> l.exc, value |-> l.value, calls |-> r.calls]

\* Transaction(**response) of a parsed body
ParseTransaction_nodetails(r) ==
  IF r.exc # NoException THEN [exc |-> r.exc, value |-> None, calls |-> r.calls]
  ELSE IF ~CanNew(TransactionClass, r.body)
       THEN [exc |-> "TypeError", value |-> None, calls |-> r.calls]
       ELSE [exc |-> NoException,
             value |-> [New(TransactionClass, r.body) EXCEPT !.details = None],
             calls |-> r.calls]

ParseTransaction_wrapped(r) ==
  IF r.exc # NoException THEN [exc |-> r.exc, value |-> None, calls |-> r.calls]
  ELSE IF "transaction" \notin DOMAIN r.body
       THEN [exc |-> "KeyError", value |-> None, calls |-> r.calls]
       ELSE [exc |-> NoException, value |-> New(TransactionClass, r.body.transaction),
             calls |-> r.calls]

ParseTransaction(r) ==
  IF r.exc # NoException THEN [exc |-> r.exc, value |-> None, calls |-> r.calls]
  ELSE IF ~CanNew(TransactionClass, r.body)
       THEN [exc |-> "TypeError", value |-> None, calls |-> r.calls]
       ELSE [exc |-> NoException, value |-> New(TransactionClass, r.body), calls |-> r.calls]

get_cards_known(self, account_id, reply) ==
  LET url == AccountPath(self, account_id) \o <<"/cards">>
  IN IF accounts # <<>> /\ IsNone(FindAccount(accounts, account_id))
     THEN [exc |-> NoException, value |-> <<>>, calls |-> <<>>]
     ELSE ParseKey(request_json(self, url, "get", None, reply), "cards", CardClass)

get_cards(self, account_id, reply) ==
  LET url == AccountPath(self, account_id) \o <<"/cards">>
  IN ParseKey(request_json(self, url, "get", None, reply), "cards", CardClass)

\* for key, value in query_params.items(): if value: url += f"&{key}={value}"
RECURSIVE AppendQuery(_, _)
AppendQuery(url, query_params) ==
  IF query_params = <<>> THEN url
  ELSE LET key == Head(query_params)[1]
           value == Head(query_params)[2]
       IN AppendQuery(IF Truthy(value)
                      THEN url \o <<"&", key, "=">> \o Format(value)
                      ELSE url,
                      Tail(query_params))

TransactionsUrl(self, account_id, params) ==
  LET url == AccountPath(self, account_id) \o <<"/transactions", "?">>
      query_params == << <<"limit", params.limit>>, <<"offset", params.offset>>,
                         <<"status", params.status>>, <<"start", params.start>>,
                         <<"end", params.end>>, <<"search", params.search>> >>
  IN Replace(AppendQuery(url, query_params), <<"?", "&">>, <<"?">>)

get_transactions(self, account_id, params, reply) ==
  LET url == TransactionsUrl(self, account_id, params)
  IN ParseKey(request_json(self, url, "get", None, reply), "transactions", TransactionClass)

get_transaction_by_id(self, account_id, transaction_id, reply) ==
  LET url == AccountPath(self, account_id) \o <<"/transaction/">> \o Format(transaction_id)
  IN ParseTransaction(request_json(self, url, "get", None, reply))

StatementsUrl_nostrip(self, account_id, start, end) ==
  LET url0 == AccountPath(self, account_id) \o <<"/statements", "?">>
      url1 == IF Truthy(start) THEN url0 \o <<"&", "start", "=">> \o Format(start) ELSE url0
      url2 == IF Truthy(end) THEN url1 \o <<"&", "end", "=">> \o Format(end) ELSE url1
  IN Replace(url2, <<"?", "&">>, <<"?">>)

StatementsUrl(self, account_id, start, end) ==
  LET url0 == AccountPath(self, account_id) \o <<"/statements", "?">>
      url1 == IF Truthy(start) THEN url0 \o <<"&", "start", "=">> \o Format(start) ELSE url0
      url2 == IF Truthy(end) THEN url1 \o <<"&", "end", "=">> \o Format(end) ELSE url1
      url3 == Replace(url2, <<"?", "&">>, <<"?">>)
  IN IF ~Truthy(start) /\ ~Truthy(end) THEN Replace(url3, <<"?">>, <<>>) ELSE url3

get_statements(self, account_id, start, end, reply) ==
  LET url == StatementsUrl(self, account_id, start, end)
  IN ParseKey(request_json(self, url, "get", None, reply), "statements", StatementClass)

create_transaction(self, account_id, transaction, reply) ==
  LET url == AccountPath(self, account_id) \o <<"/transactions">>
  IN ParseTransaction(request_json(self, url, "post", transaction, reply))

request_send_money_transactions(self, account_id, transaction, reply) ==
  LET url == AccountPath(self, account_id) \o <<"/transactions">>
  IN ParseTransaction(request_json(self, url, "post", transaction, reply))

request_send_money(self, account_id, transaction, reply) ==
  LET url == AccountPath(self, account_id) \o <<"/send_money">>
  IN ParseTransaction(request_json(self, url, "post", transaction, reply))

\* ------------------------------------------------------------------ inputs
S(x) == PyStr(<<x>>)

BoundedSeq(X, n) == UNION {[1..k -> X] : k \in 0..n}

Restrict(f, K) == [k \in K |-> f[k]]

Tokens == {S("tokA"), S("tokB")}
BaseUrlArgs == {None, PyStr(<<>>), S("http://localhost:8080")}

\* constructor arguments of the clients of one process
ClientArgs ==
  {[token |-> S("tokA"), base_url |-> None],
   [token |-> S("tokB"), base_url |-> S("http://localhost:8080")],
   [token |-> S("tokA"), base_url |-> PyStr(<<>>)]}

\* JSON objects of the `accounts` array: Account(...).__dict__ as in the tests,
\* one without the optional keys, one of only id and name, and one with a key
\* that Account does not declare
AccountJson(id) ==
  [accountNumber |-> S(id), availableBalance |-> PyInt(0),
   createdAt |-> S("2024-10-12T23:37:37.635792Z"), currentBalance |-> PyInt(0),
   id |-> S(id), kind |-> S("checking"), name |-> S("Test Account " \o id),
   routingNumber |-> S("123456789"), status |-> S("active"), type |-> S("mercury"),
   legalBusinessName |-> S("Test " \o id),
   dashboardLink |-> S("https://app.mercury.com/accounts/depository/" \o id),
   canReceiveTransactions |-> None, nickname |-> None]

AccountObjects ==
  {AccountJson("1"),
   Restrict(AccountJson("2"), Required(AccountClass)),
   Restrict(AccountJson("2"), {"id", "name"}),
   AccountJson("1") @@ ("iban" :> S("x"))}

CardJson(id) ==
  [cardId |-> S(id), createdAt |-> S("2024-10-12T23:37:37.635792Z"),
   lastFourDigits |-> S("4242"), nameOnCard |-> S("Test Card"), network |-> S("visa"),
   status |-> S("active"), physicalCardStatus |-> None]

CardObjects == {CardJson("1"), [id |-> S("1"), name |-> S("Test Card")]}

TransactionJson(id) ==
  [amount |-> PyInt(50), bankDescription |-> None, counterpartyId |-> S("r1"),
   counterpartyName |-> S("Recipient"), counterpartyNickname |-> None,
   createdAt |-> S("2024-10-12T23:37:37.635792Z"),
   dashboardLink |-> S("https://app.mercury.com/transactions/" \o id),
   details |-> None, estimatedDeliveryDate |-> S("2024-10-14T00:00:00Z"),
   failedAt |-> None, id |-> S(id), kind |-> S("externalTransfer"), note |-> None,
   externalMemo |-> None, postedAt |-> None, reasonForFailure |-> None,
   status |-> S("pending"), feeId |-> None, currencyExchangeInfo |-> None,
   compliantWithReceiptPolicy |-> None, hasGeneratedReceipt |-> None,
   creditAccountPeriodId |-> None, mercuryCategory |-> None,
   generalLedgerCodeName |-> None, attachments |-> <<>>]

DetailsFields ==
  {"address", "domesticWireRoutingInfo", "electronicRoutingInfo",
   "internationalWireRoutingInfo", "debitCardInfo", "creditCardInfo"}

\* a `details` object of a response: the sub-objects in `populated`, null elsewhere
DetailsJson(populated) ==
  PyObj([f \in DetailsFields |-> IF f \in populated THEN PyObj([id |-> S("c1")]) ELSE None])

\* transaction objects: every field with details null, with one and with two
\* sub-objects of details, and an object of only id and amount
TransactionObjects ==
  {TransactionJson("t1"),
   [TransactionJson("t1") EXCEPT !.details = DetailsJson({"debitCardInfo"})],
   [TransactionJson("t1") EXCEPT !.details = DetailsJson({"debitCardInfo", "creditCardInfo"})],
   [id |-> S("1"), amount |-> PyInt(100)]}

StatementJson(id) ==
  [id |-> S(id), accountNumber |-> S("1"), companyLegalAddress |-> None,
   companyLegalName |-> S("Test 1"), ein |-> None, endDate |-> S("2023-01-31"),
   endingBalance |-> PyInt(0), routingNumber |-> S("123456789"),
   startDate |-> S("2023-01-01"), transactions |-> <<>>,
   downloadUrl |-> S("https://app.mercury.com/statements/" \o id)]

StatementObjects ==
  {StatementJson("1"),
   [id |-> S("1"), period_start |-> S("2023-01-01"), period_end |-> S("2023-01-31")]}

\* what the transport can answer
Statuses == {200, 500}
ErrorBody == [message |-> S("error")]

Replies(bodies) ==
  {[kind |-> "error"]}
    \cup {[kind |-> "notjson", status |-> st] : st \in Statuses}
    \cup {[kind |-> "json", status |-> st, body |-> b] : st \in Statuses, b \in bodies}

ListBodies(key, objects, n) ==
  {ErrorBody} \cup {(key :> items) : items \in BoundedSeq(objects, n)}

AccountsReplies == Replies(ListBodies("accounts", AccountObjects, MaxAccounts))
CardsReplies == Replies(ListBodies("cards", CardObjects, MaxItems))
TransactionsReplies == Replies(ListBodies("transactions", TransactionObjects, MaxItems))
StatementsReplies == Replies(ListBodies("statements", StatementObjects, MaxItems))
TransactionReplies == Replies({ErrorBody} \cup TransactionObjects)

\* the answer of the send_money endpoint: an approval request
ApprovalJson ==
  [accountId |-> S("1"), requestId |-> S("q1"), recipientId |-> S("r1"), memo |-> None,
   paymentMethod |-> S("ach"), amount |-> PyInt(50), status |-> S("pendingApproval")]

SendMoneyReplies == Replies({ErrorBody, ApprovalJson} \cup TransactionObjects)

AccountIdArgs == {S("1"), S("2"), S("9")}
TransactionIdArgs == {S("t1")}

Date1 == PyDate(2023, 1, 1)
Date2 == PyDate(2023, 1, 31)

\* parameter objects: the defaults, and attributes set by the caller
Params ==
  {TransactionParams,
   [TransactionParams EXCEPT !.limit = PyInt(10), !.search = PyStr(<<>>)],
   [TransactionParams EXCEPT !.limit = PyInt(0)],
   [limit |-> PyInt(10), offset |-> PyInt(5), status |-> S("pending"),
    start |-> Date1, end |-> Date2, search |-> S("rent")]}

\* keyword arguments a caller gives NewTransactionPayload, the rest defaulted
PayloadKwargs ==
  {[recipientId |-> S("r1"), amount |-> PyInt(50), idempotencyKey |-> S("k1")],
   [recipientId |-> S("r1"), amount |-> PyInt(50), idempotencyKey |-> S("k1"),
    note |-> S("rent")]}

\* payloads: None, an object without instance attributes, and dataclass instances
Payloads ==
  {None, PyObj(EmptyDict),
   NewTransactionPayload(S("r1"), PyInt(50), S("k1"), S("ach"), None, None),
   NewTransactionPayload(None, None, None, S("ach"), None, None),
   NewTransactionPayload(None, None, None, None, None, None)}
  \cup {PyObj(New(NewTransactionPayloadClass, kw)) : kw \in PayloadKwargs}

\* ----------------------------------------------------------------- actions
NoReply == [kind |-> "none"]

\* what `last` keeps of a call: its inputs, the transport's answer when the
\* transport was reached, the outcome, and the class's list before the call
Record(op, self, args, reply, r) ==
  [op |-> op, self |-> self, args |-> args,
   reply |-> IF r.calls = <<>> THEN NoReply ELSE reply,
   exc |-> r.exc, value |-> r.value, calls |-> r.calls, before |-> accounts]

\* no call in progress: the caller has taken the previous call's outcome
Idle ==
  [op |-> "none", self |-> 0, args |-> <<>>, reply |-> NoReply,
   exc |-> NoException, value |-> None, calls |-> <<>>, before |-> <<>>]

Init ==
  /\ _token = <<>>
  /\ base_url = <<>>
  /\ accounts = <<>>
  /\ last = Idle
  /\ threads = NoThreads

\* the call returns or raises to its caller, which proceeds (calls are synchronous)
Return ==
  /\ last.op # Idle.op
  /\ last' = Idle
  /\ UNCHANGED <<_token, base_url, accounts, threads>>

\* MercuryApiClient(token, base_url): sets _token, and base_url when truthy
NewClient(token, url) ==
  /\ last.op = Idle.op
  /\ Len(_token) < MaxClients
  /\ _token' = Append(_token, token)
  /\ base_url' = Append(base_url, IF Truthy(url) THEN url ELSE DefaultBaseUrl)
  /\ last' = Record("__init__", Len(_token) + 1, [token |-> token, base_url |-> url],
                    NoReply, [exc |-> NoException, value |-> None, calls |-> <<>>])
  /\ UNCHANGED <<accounts, threads>>

GetAccounts(self, reply) ==
  LET r == get_accounts(self, reply)
  IN /\ last.op = Idle.op
     /\ accounts' = r.accounts
     /\ last' = Record("get_accounts", self, <<>>, reply, r)
     /\ UNCHANGED <<_token, base_url, threads>>

GetAccountById(self, account_id, reply) ==
  LET r == get_account_by_id(self, account_id, reply)
  IN /\ last.op = Idle.op
     /\ accounts' = r.accounts
     /\ last' = Record("get_account_by_id", self, [account_id |-> account_id], reply, r)
     /\ UNCHANGED <<_token, base_url, threads>>

GetCards(self, account_id, reply) ==
  /\ last.op = Idle.op
  /\ last' = Record("get_cards", self, [account_id |-> account_id], reply,
                    get_cards(self, account_id, reply))
  /\ UNCHANGED <<_token, base_url, accounts, threads>>

GetTransactions(self, account_id, params, reply) ==
  /\ last.op = Idle.op
  /\ last' = Record("get_transactions", self,
                    [account_id |-> account_id, params |-> params], reply,
                    get_transactions(self, account_id, params, reply))
  /\ UNCHANGED <<_token, base_url, accounts, threads>>

GetTransactionById(self, account_id, transaction_id, reply) ==
  /\ last.op = Idle.op
  /\ last' = Record("get_transaction_by_id", self,
                    [account_id |-> account_id, transaction_id |-> transaction_id], reply,
                    get_transaction_by_id(self, account_id, transaction_id, reply))
  /\ UNCHANGED <<_token, base_url, accounts, threads>>

GetStatements(self, account_id, start, end, reply) ==
  /\ last.op = Idle.op
  /\ last' = Record("get_statements", self,
                    [account_id |-> account_id, start |-> start, end |-> end], reply,
                    get_statements(self, account_id, start, end, reply))
  /\ UNCHANGED <<_token, base_url, accounts, threads>>

CreateTransaction(self, account_id, transaction, reply) ==
  /\ last.op = Idle.op
  /\ last' = Record("create_transaction", self,
                    [account_id |-> account_id, transaction |-> transaction], reply,
                    create_transaction(self, account_id, transaction, reply))
  /\ UNCHANGED <<_token, base_url, accounts, threads>>

RequestSendMoney(self, account_id, transaction, reply) ==
  /\ last.op = Idle.op
  /\ last' = Record("request_send_money", self,
                    [account_id |-> account_id, transaction |-> transaction], reply,
                    request_send_money(self, account_id, transaction, reply))
  /\ UNCHANGED <<_token, base_url, accounts, threads>>

Next ==
  \/ Return
  \/ last.op = Idle.op /\ \E a \in ClientArgs : NewClient(a.token, a.base_url)
  \/ last.op = Idle.op /\ \E self \in clients, reply \in AccountsReplies : GetAccounts(self, reply)
  \/ last.op = Idle.op /\ \E self \in clients, id \in AccountIdArgs, reply \in AccountsReplies :
                   GetAccountById(self, id, reply)
  \/ last.op = Idle.op /\ \E self \in clients, reply \in CardsReplies : GetCards(self, S("1"), reply)
  \/ last.op = Idle.op /\ \E self \in clients, params \in Params, reply \in TransactionsReplies :
                   GetTransactions(self, S("1"), params, reply)
  \/ last.op = Idle.op /\ \E self \in clients, tid \in TransactionIdArgs, reply \in TransactionReplies :
                   GetTransactionById(self, S("1"), tid, reply)
  \/ last.op = Idle.op /\ \E self \in clients, start \in {None, Date1}, end \in {None, Date2},
                   reply \in StatementsReplies :
                   GetStatements(self, S("1"), start, end, reply)
  \/ last.op = Idle.op /\ \E self \in clients, payload \in Payloads, reply \in TransactionReplies :
                   CreateTransaction(self, S("acc1"), payload, reply)
  \/ last.op = Idle.op /\ \E self \in clients, payload \in Payloads, reply \in SendMoneyReplies :
                   RequestSendMoney(self, S("1"), payload, reply)

Spec == Init /\ [][Next]_vars

\* the URL-building operations over the product of their parameter values
UrlParams ==
  [limit : {None, PyInt(0), PyInt(10), PyInt(500)}, offset : {PyInt(0), PyInt(5)},
   status : {None, S("pending")}, start : {None, Date1}, end : {None, Date2},
   search : {None, PyStr(<<>>), S("rent")}]

UrlAccountIds == {S("1"), S("acc1")}

UrlReplies(key) ==
  {[kind |-> "error"], [kind |-> "json", status |-> 200, body |-> (key :> <<>>)]}

NextUrl ==
  \/ Return
  \/ last.op = Idle.op /\ \E a \in ClientArgs : NewClient(a.token, a.base_url)
  \/ last.op = Idle.op /\ \E self \in clients, id \in UrlAccountIds, params \in UrlParams,
                   reply \in UrlReplies("transactions") :
                   GetTransactions(self, id, params, reply)
  \/ last.op = Idle.op /\ \E self \in clients, id \in UrlAccountIds, start \in {None, Date1},
                   end \in {None, Date2}, reply \in UrlReplies("statements") :
                   GetStatements(self, id, start, end, reply)

SpecUrl == Init /\ [][NextUrl]_vars

\* ------------------------------- URL builders over strings with '?', '&'
\* caller strings that contain the characters the normalisation looks for
HostileStrings ==
  {S("rent"), PyStr(<<"a", "?", "&", "b">>), PyStr(<<"a", "?">>)}

HostileParams ==
  [limit : {PyInt(0), PyInt(10)}, offset : {PyInt(0)}, status : {None, PyStr(<<"x", "?">>)},
   start : {None}, end : {None}, search : {None} \cup HostileStrings]

HostileAccountIds == {S("1"), PyStr(<<"a", "?", "&", "1">>)}

HostileClientArgs ==
  {[token |-> S("tokA"), base_url |-> None],
   [token |-> S("tokA"), base_url |-> PyStr(<<"http://localhost:8080/x", "?", "&", "y">>)]}

NextHostile ==
  \/ Return
  \/ last.op = Idle.op /\ \E a \in HostileClientArgs : NewClient(a.token, a.base_url)
  \/ last.op = Idle.op /\ \E self \in clients, id \in HostileAccountIds, params \in HostileParams,
                   reply \in UrlReplies("transactions") :
                   GetTransactions(self, id, params, reply)
  \/ last.op = Idle.op /\ \E self \in clients, id \in HostileAccountIds, start \in {None, Date1},
                   end \in {None, Date2}, reply \in UrlReplies("statements") :
                   GetStatements(self, id, start, end, reply)

SpecHostile == Init /\ [][NextHostile]_vars

\* ------------------------------------------ one client, account objects
\* objects of an `accounts` array: every field with the optional ones null,
\* the required fields only, every field with the optional ones set, and
\* objects of only id and name
DataAccountObjects ==
  {AccountJson("1"),
   Restrict(AccountJson("2"), Required(AccountClass)),
   [AccountJson("2") EXCEPT !.nickname = S("Ops"), !.canReceiveTransactions = PyBool(TRUE)],
   [id |-> S("1"), name |-> S("A")],
   [id |-> S("2"), name |-> S("B")]}

DataReplies == Replies(ListBodies("accounts", DataAccountObjects, MaxAccounts))

\* a process that has constructed one client with the default base URL
InitData ==
  /\ _token = <<S("tokA")>>
  /\ base_url = <<DefaultBaseUrl>>
  /\ accounts = <<>>
  /\ last = Idle
  /\ threads = NoThreads

NextData ==
  \/ Return
  \/ last.op = Idle.op /\ \E self \in clients, reply \in DataReplies : GetAccounts(self, reply)
  \/ last.op = Idle.op /\ \E self \in clients, id \in AccountIdArgs, reply \in DataReplies :
                   GetAccountById(self, id, reply)

SpecData == InitData /\ [][NextData]_vars

\* -------------------------------- threads calling get_accounts on a client
\* get_accounts runs on a thread in steps between which other threads may run:
\* the test of len(self.accounts), the blocking request, each append of the
\* loop, and the return.
ThreadReplies ==
  {[kind |-> "error"]}
    \cup {[kind |-> "json", status |-> 200, body |-> ("accounts" :> items)] :
            items \in BoundedSeq({AccountJson("1"),
                                  Restrict(AccountJson("2"), Required(AccountClass))},
                                 MaxItems)}

\* if len(self.accounts) > 0: return self.accounts
ThreadCheck(t) ==
  /\ threads[t].pc = "start"
  /\ threads' =
       [threads EXCEPT ![t] =
          IF CacheHit(accounts)
          THEN [@ EXCEPT !.pc = "done", !.value = accounts]
          ELSE [@ EXCEPT !.pc = "checked",
                         !.raced = \E u \in DOMAIN threads :
                                     u # t /\ threads[u].pc \in {"checked", "appending"}]]
  /\ UNCHANGED <<_token, base_url, accounts, last>>

\* response = self._make_request(url).json(), then response["accounts"]
ThreadRequest(t, self, reply) ==
  LET url == Format(base_url[self]) \o <<"/api/v1/accounts">>
      r == request_json(self, url, "get", None, reply)
  IN /\ threads[t].pc = "checked"
     /\ threads' =
          [threads EXCEPT ![t] =
             IF r.exc # NoException THEN [@ EXCEPT !.pc = "done", !.exc = r.exc]
             ELSE IF "accounts" \notin DOMAIN r.body
                  THEN [@ EXCEPT !.pc = "done", !.exc = "KeyError"]
                  ELSE [@ EXCEPT !.pc = "appending", !.todo = r.body.accounts,
                                 !.answered = r.body.accounts]]
     /\ UNCHANGED <<_token, base_url, accounts, last>>

\* one turn of the loop: account = Account(**account); self.accounts.append(account)
ThreadAppend(t) ==
  LET a == AppendAccounts(accounts, <<Head(threads[t].todo)>>)
  IN /\ threads[t].pc = "appending"
     /\ threads[t].todo # <<>>
     /\ accounts' = a.accounts
     /\ threads' =
          [threads EXCEPT ![t] =
             IF a.exc # NoException THEN [@ EXCEPT !.pc = "done", !.exc = a.exc]
             ELSE [@ EXCEPT !.todo = Tail(@), !.appended = @ + 1]]
     /\ UNCHANGED <<_token, base_url, last>>

\* return self.accounts
ThreadReturn(t) ==
  /\ threads[t].pc = "appending"
  /\ threads[t].todo = <<>>
  /\ threads' = [threads EXCEPT ![t] = [@ EXCEPT !.pc = "done", !.value = accounts]]
  /\ UNCHANGED <<_token, base_url, accounts, last>>

NextThreads ==
  \/ \E t \in DOMAIN threads : ThreadCheck(t)
  \/ \E t \in DOMAIN threads, reply \in ThreadReplies : ThreadRequest(t, 1, reply)
  \/ \E t \in DOMAIN threads : ThreadAppend(t)
  \/ \E t \in DOMAIN threads : ThreadReturn(t)

SpecThreads == InitData /\ [][NextThreads]_vars

\* ------------------------------------------- one client, list responses
\* two objects that differ for each list, and the objects the classes refuse
\* for each class: an object with a value that the annotation of the field
\* (a Literal[...] or Optional[str]) does not admit, one with an undeclared
\* key added, and one with a single required key removed
KeyVariants(cls, obj, enum) ==
  {[obj EXCEPT ![enum] = S("bogus")],
   obj @@ ("iban" :> S("x")),
   Restrict(obj, cls.fields \ {enum})}

ListAccountsReplies ==
  Replies(ListBodies("accounts",
                     DataAccountObjects \cup KeyVariants(AccountClass, AccountJson("2"), "status"),
                     MaxList))
ListCardsReplies ==
  Replies(ListBodies("cards",
                     CardObjects \cup {CardJson("2")}
                       \cup KeyVariants(CardClass, CardJson("2"), "network"),
                     MaxList))
ListTransactionsReplies ==
  Replies(ListBodies("transactions",
                     TransactionObjects \cup {TransactionJson("t2")}
                       \cup KeyVariants(TransactionClass, TransactionJson("t2"), "kind"),
                     MaxList))
ListStatementsReplies ==
  Replies(ListBodies("statements",
                     StatementObjects \cup {StatementJson("2")}
                       \cup KeyVariants(StatementClass, StatementJson("2"), "ein"),
                     MaxList))

NextList ==
  \/ Return
  \/ last.op = Idle.op /\ \E self \in clients, reply \in ListAccountsReplies :
                   GetAccounts(self, reply)
  \/ last.op = Idle.op /\ \E self \in clients, reply \in ListCardsReplies :
                   GetCards(self, S("1"), reply)
  \/ last.op = Idle.op /\ \E self \in clients, reply \in ListTransactionsReplies :
                   GetTransactions(self, S("1"), TransactionParams, reply)
  \/ last.op = Idle.op /\ \E self \in clients, reply \in ListStatementsReplies :
                   GetStatements(self, S("1"), None, None, reply)

SpecList == InitData /\ [][NextList]_vars

\* ------------------------------------------------------------------ claims
PublicOps ==
  {"get_accounts", "get_account_by_id", "get_cards", "get_transactions",
   "get_transaction_by_id", "get_statements", "create_transaction",
   "request_send_money"}

PostOps == {"create_transaction", "request_send_money"}

\* the `accounts` array of the answer, when the answer has one
AnsweredAccounts(reply) ==
  IF reply.kind = "json" /\ "accounts" \in DOMAIN reply.body
  THEN reply.body.accounts ELSE <<>>

HasAccountsArray(reply) == reply.kind = "json" /\ "accounts" \in DOMAIN reply.body

\* C1: get_accounts() on a client whose account cache is non-empty makes no
\* transport call and returns the cached accounts, which stay as they were.
C1_CacheShortCircuit ==
  (last.op = "get_accounts" /\ Len(last.before) > 0)
    => /\ last.calls = <<>>
       /\ last.exc = NoException
       /\ last.value = last.before
       /\ accounts = last.before

C1_Witness ==
  /\ last.op = "get_accounts"
  /\ Len(last.before) = 2
  /\ last.exc = NoException
  /\ last.value = last.before

\* C2: get_accounts() on an empty cache issues exactly one GET to
\* {base_url}/api/v1/accounts; when every element of the answered `accounts`
\* array deserializes, the result has the array's length and order, element i
\* being the Account built from element i, and the cache equals the result.
C2_FetchPopulatesInOrder ==
  (last.op = "get_accounts" /\ last.before = <<>>)
    => /\ Len(last.calls) = 1
       /\ last.calls[1].method = "get"
       /\ last.calls[1].url = base_url[last.self].str \o <<"/api/v1/accounts">>
       /\ (/\ HasAccountsArray(last.reply)
           /\ \A i \in 1..Len(AnsweredAccounts(last.reply)) :
                CanNew(AccountClass, AnsweredAccounts(last.reply)[i]))
            => /\ last.exc = NoException
               /\ Len(last.value) = Len(AnsweredAccounts(last.reply))
               /\ \A i \in 1..Len(last.value) :
                    /\ DOMAIN last.value[i] = AccountClass.fields
                    /\ \A f \in DOMAIN AnsweredAccounts(last.reply)[i] :
                         last.value[i][f] = AnsweredAccounts(last.reply)[i][f]
               /\ accounts = last.value

C2_Witness ==
  /\ last.op = "get_accounts"
  /\ last.before = <<>>
  /\ last.exc = NoException
  /\ Len(last.value) = 2
  /\ last.value[1].id # last.value[2].id
  /\ accounts = last.value

\* C3: get_account_by_id returns the first cached account whose id equals
\* account_id, None when no cached account has that id, and does not raise
\* when the cache was non-empty; on an empty cache it first calls
\* get_accounts() and returns None if the cache is still empty afterwards.
C3_AccountById ==
  last.op = "get_account_by_id"
    => LET id == last.args.account_id
           hits == {i \in 1..Len(accounts) : accounts[i].id = id}
       IN /\ (last.before # <<>>) => (last.exc = NoException /\ last.calls = <<>>)
          /\ (last.before = <<>>) => Len(last.calls) = 1
          /\ (last.exc # NoException) => last.reply.kind # "none"
          /\ (last.exc = NoException /\ hits = {}) => last.value = None
          /\ (last.exc = NoException /\ hits # {})
               => /\ last.value # None
                  /\ last.value.id = id
                  /\ \E i \in hits : last.value = accounts[i] /\ \A j \in hits : i <= j
          /\ (last.exc = NoException /\ accounts = <<>>) => last.value = None

C3_Witness ==
  /\ last.op = "get_account_by_id"
  /\ last.before = <<>>
  /\ last.exc = NoException
  /\ Len(accounts) = 2
  /\ last.value = accounts[2]
  /\ accounts[1] # accounts[2]

\* what self.accounts evaluates to on a client: no instance attribute of that
\* name is ever assigned, so the lookup reaches the class attribute
SelfAccounts(self) == accounts

\* C4: every newly constructed client starts with an empty account cache,
\* whatever has been done on other client instances of the process.
C4_NewClientHasEmptyCache ==
  last.op = "__init__" => SelfAccounts(last.self) = <<>>

\* a payload object none of whose fields holds a value
AllFieldsNone(payload) ==
  IsObj(payload) /\ \A k \in DOMAIN payload.dict : payload.dict[k] = None

\* C5 (as stated): create_transaction and request_send_money with a null
\* payload or a payload whose fields are all None fail with a validation
\* error before any transport call, leaving the client state unchanged.
C5_EmptyPayloadRejected ==
  (last.op \in PostOps /\ (IsNone(last.args.transaction) \/ AllFieldsNone(last.args.transaction)))
    => /\ last.exc = "ValueError"
       /\ last.calls = <<>>
       /\ accounts = last.before

\* C5 (amended): create_transaction and request_send_money with a null payload
\* or a payload object without any instance attribute fail with ValueError
\* before any transport call, leaving the client state unchanged; a payload
\* whose attributes are all None is not empty in this sense.
C5_MissingPayloadRejected ==
  (last.op \in PostOps
     /\ (IsNone(last.args.transaction)
           \/ (IsObj(last.args.transaction) /\ DOMAIN last.args.transaction.dict = {})))
    => /\ last.exc = "ValueError"
       /\ last.calls = <<>>
       /\ last.reply = NoReply
       /\ accounts = last.before

C5_Witness ==
  /\ last.op = "request_send_money"
  /\ last.args.transaction = PyObj(EmptyDict)
  /\ last.exc = "ValueError"
  /\ last.calls = <<>>

\* the value the claims call absent: None, 0 or the empty string
Absent(v) == v = None \/ v = PyInt(0) \/ v = PyStr(<<>>)

ParamPairs(params) ==
  << <<"limit", params.limit>>, <<"offset", params.offset>>, <<"status", params.status>>,
     <<"start", params.start>>, <<"end", params.end>>, <<"search", params.search>> >>

IsPresentPair(pair) == ~Absent(pair[2])

\* key=value pairs joined by '&'
RECURSIVE JoinPairs(_)
JoinPairs(pairs) ==
  IF pairs = <<>> THEN <<>>
  ELSE <<pairs[1][1], "=">> \o Format(pairs[1][2])
         \o (IF Len(pairs) > 1 THEN <<"&">> \o JoinPairs(Tail(pairs)) ELSE <<>>)

PathOf(self, account_id, leaf) ==
  base_url[self].str \o <<"/api/v1/account/">> \o account_id.str \o <<leaf>>

\* C6: with at least one parameter present, get_transactions requests
\* {base_url}/api/v1/account/{account_id}/transactions, a single '?', and
\* exactly the parameters among limit, offset, status, start, end, search whose
\* value is not 0, "" or None, in that order, as key=value joined by '&', never
\* with '?&'; limit=10, offset=0, search="" gives '?limit=10' and the default
\* parameters give '?limit=500'.  (C7 is the case of no parameter present.)
C6_TransactionsQueryString ==
  (last.op = "get_transactions"
     /\ SelectSeq(ParamPairs(last.args.params), IsPresentPair) # <<>>)
    => LET params == last.args.params
           path == PathOf(last.self, last.args.account_id, "/transactions")
           url == last.calls[1].url
       IN /\ Len(last.calls) = 1
          /\ url = path \o <<"?">> \o JoinPairs(SelectSeq(ParamPairs(params), IsPresentPair))
          /\ \A i \in 1..(Len(url) - 1) : ~(url[i] = "?" /\ url[i + 1] = "&")
          /\ Cardinality({i \in 1..Len(url) : url[i] = "?"}) = 1
          /\ (params = [TransactionParams EXCEPT !.limit = PyInt(10), !.search = PyStr(<<>>)])
               => url = path \o <<"?", "limit", "=", "1", "0">>
          /\ (params = TransactionParams)
               => url = path \o <<"?", "limit", "=", "5", "0", "0">>

C6_Witness ==
  /\ last.op = "get_transactions"
  /\ last.args.params = [TransactionParams EXCEPT !.limit = PyInt(10), !.search = PyStr(<<>>)]
  /\ last.calls[1].url
       = <<"https://api.mercury.com", "/api/v1/account/", "1", "/transactions",
           "?", "limit", "=", "1", "0">>

\* C7: get_transactions with no parameter present requests a URL that ends in
\* '/transactions', the bare '?' being stripped.
C7_TransactionsBareMarkStripped ==
  (last.op = "get_transactions"
     /\ \A i \in 1..6 : Absent(ParamPairs(last.args.params)[i][2]))
    => last.calls[1].url = PathOf(last.self, last.args.account_id, "/transactions")

\* C8: get_statements requests {base_url}/api/v1/account/{account_id}/statements
\* with no '?' when neither start nor end is given, '?start=<start>' when only
\* start is given, '?end=<end>' when only end is given, and
\* '?start=<start>&end=<end>' when both are given.
C8_StatementsQueryString ==
  last.op = "get_statements"
    => LET start == last.args.start
           end == last.args.end
           path == PathOf(last.self, last.args.account_id, "/statements")
           url == last.calls[1].url
       IN /\ Len(last.calls) = 1
          /\ (start = None /\ end = None)
               => (url = path /\ \A i \in 1..Len(url) : url[i] # "?")
          /\ (start # None /\ end = None)
               => (url = path \o <<"?", "start", "=">> \o Format(start)
                     /\ \A i \in 1..Len(url) : url[i] # "&")
          /\ (start = None /\ end # None)
               => url = path \o <<"?", "end", "=">> \o Format(end)
          /\ (start # None /\ end # None)
               => url = path \o <<"?", "start", "=">> \o Format(start)
                          \o <<"&", "end", "=">> \o Format(end)
          /\ (start = Date1 /\ end = None)
               => url = path \o <<"?", "start", "=", "2", "0", "2", "3", "-", "0", "1",
                                  "-", "0", "1">>

C8_Witness ==
  /\ last.op = "get_statements"
  /\ last.args.start = None
  /\ last.args.end = None
  /\ last.calls[1].url
       = <<"http://localhost:8080", "/api/v1/account/", "acc1", "/statements">>

\* the payloads _make_request refuses: None, or an object without attributes
Refused(payload) == IsNone(payload) \/ (IsObj(payload) /\ DOMAIN payload.dict = {})

\* C9: every public operation calls the transport at most once, and exactly
\* once unless get_accounts / get_account_by_id are served from a non-empty
\* cache or a POST is refused for its payload; when the transport fails there
\* is no second call and the failure is what the caller gets.
C9_OneCallNoRetry ==
  last.op \in PublicOps
    => LET served == last.op \in {"get_accounts", "get_account_by_id"} /\ last.before # <<>>
           refused == last.op \in PostOps /\ Refused(last.args.transaction)
       IN /\ Len(last.calls) <= 1
          /\ Len(last.calls) = IF served \/ refused THEN 0 ELSE 1
          /\ (last.reply.kind = "error")
               => (Len(last.calls) = 1 /\ last.exc = "RequestException")

C9_Witness ==
  /\ last.op = "get_account_by_id"
  /\ last.reply.kind = "error"
  /\ Len(last.calls) = 1
  /\ last.exc = "RequestException"

\* C10: every transport call of a client carries 'Authorization: Bearer <token>'
\* and 'accept: application/json', <token> being the token given when the
\* client was constructed, and no step changes a client's stored token.
C10_AuthHeaders ==
  [][/\ \A c \in DOMAIN _token : _token'[c] = _token[c]
     /\ (last'.op = "__init__") => _token'[last'.self] = last'.args.token
     /\ \A i \in 1..Len(last'.calls) :
          last'.calls[i].headers
            = [Authorization |-> <<"Bearer ">> \o _token'[last'.self].str,
               accept |-> <<"application/json">>]]_vars

C10_Witness ==
  /\ last.op \in PostOps
  /\ last.self = 2
  /\ _token[2] # _token[1]
  /\ Len(last.calls) = 1
  /\ last.calls[1].method = "post"
  /\ last.calls[1].headers.Authorization = <<"Bearer ", "tokB">>

\* the method and the path below {base_url} that the interface gives each operation
Endpoint(op, args) ==
  CASE op = "get_accounts" -> [method |-> "get", path |-> <<"/api/v1/accounts">>]
    [] op = "get_account_by_id" -> [method |-> "get", path |-> <<"/api/v1/accounts">>]
    [] op = "get_cards" ->
         [method |-> "get", path |-> <<"/api/v1/account/">> \o args.account_id.str \o <<"/cards">>]
    [] op = "get_transactions" ->
         [method |-> "get",
          path |-> <<"/api/v1/account/">> \o args.account_id.str \o <<"/transactions">>]
    [] op = "get_transaction_by_id" ->
         [method |-> "get",
          path |-> <<"/api/v1/account/">> \o args.account_id.str \o <<"/transaction/">>
                     \o args.transaction_id.str]
    [] op = "get_statements" ->
         [method |-> "get",
          path |-> <<"/api/v1/account/">> \o args.account_id.str \o <<"/statements">>]
    [] op = "create_transaction" ->
         [method |-> "post",
          path |-> <<"/api/v1/account/">> \o args.account_id.str \o <<"/transactions">>]
    [] op = "request_send_money" ->
         [method |-> "post",
          path |-> <<"/api/v1/account/">> \o args.account_id.str \o <<"/send_money">>]

\* the part of a requested URL before its query string
UrlPath(url) ==
  IF \E i \in 1..Len(url) : url[i] = "?"
  THEN SubSeq(url, 1, (CHOOSE i \in 1..Len(url) : url[i] = "?" /\ \A j \in 1..(i - 1) : url[j] # "?") - 1)
  ELSE url

\* C11: each operation calls the transport with its own method and its own
\* path under {base_url}/api/v1 (accounts; account/{id}/cards, /transactions,
\* /transaction/{tid}, /statements by GET; account/{id}/transactions and
\* /send_money by POST), {base_url} being the constructor's argument, or
\* https://api.mercury.com when that argument is None or empty, and unchanged
\* afterwards; a GET carries no body.
C11_Endpoints ==
  [][/\ \A c \in DOMAIN base_url : base_url'[c] = base_url[c]
     /\ (last'.op = "__init__")
          => base_url'[last'.self]
               = IF last'.args.base_url \in {None, PyStr(<<>>)}
                 THEN PyStr(<<"https://api.mercury.com">>)
                 ELSE last'.args.base_url
     /\ \A i \in 1..Len(last'.calls) :
          LET call == last'.calls[i]
              e == Endpoint(last'.op, last'.args)
          IN /\ call.method = e.method
             /\ UrlPath(call.url) = base_url'[last'.self].str \o e.path
             /\ (call.method = "get") => call.json = None]_vars

C11_Witness ==
  /\ last.op = "request_send_money"
  /\ Len(last.calls) = 1
  /\ last.calls[1].method = "post"
  /\ last.calls[1].url = <<"https://api.mercury.com", "/api/v1/account/", "1", "/send_money">>
  /\ base_url = <<PyStr(<<"https://api.mercury.com">>), PyStr(<<"http://localhost:8080">>)>>

\* C12: a POST that is sent carries as its JSON body the payload's attributes
\* as they are: for a NewTransactionPayload the six keys recipientId, amount,
\* idempotencyKey, paymentMethod, note, externalMemo, every one present even
\* when its value is None, with the caller's values, paymentMethod "ach" when
\* the caller gave none, and None for note and externalMemo not given.
C12_PostBodyVerbatim ==
  (last.op \in PostOps /\ Len(last.calls) = 1)
    => LET body == last.calls[1].json
           payload == last.args.transaction
       IN /\ body = payload.dict
          /\ \A kw \in PayloadKwargs :
               payload = PyObj(New(NewTransactionPayloadClass, kw))
                 => /\ DOMAIN body = {"recipientId", "amount", "idempotencyKey",
                                      "paymentMethod", "note", "externalMemo"}
                    /\ \A k \in DOMAIN kw : body[k] = kw[k]
                    /\ "paymentMethod" \notin DOMAIN kw => body.paymentMethod = PyStr(<<"ach">>)
                    /\ \A k \in {"note", "externalMemo"} \ DOMAIN kw : body[k] = None

C12_Witness ==
  /\ last.op = "create_transaction"
  /\ last.args.transaction
       = PyObj(New(NewTransactionPayloadClass,
                   [recipientId |-> S("r1"), amount |-> PyInt(50), idempotencyKey |-> S("k1")]))
  /\ Len(last.calls) = 1
  /\ last.calls[1].json
       = [recipientId |-> S("r1"), amount |-> PyInt(50), idempotencyKey |-> S("k1"),
          paymentMethod |-> S("ach"), note |-> None, externalMemo |-> None]

\* the `accounts` array of the end-to-end scenario as written
ScenarioAccounts == << [id |-> S("1"), name |-> S("A")], [id |-> S("2"), name |-> S("B")] >>

\* an `accounts` array of two objects with ids "1" and "2" that Account accepts
IsFullScenario(items) ==
  /\ Len(items) = 2
  /\ \A i \in 1..2 : CanNew(AccountClass, items[i])
  /\ items[1].id = S("1")
  /\ items[2].id = S("2")

\* C13 as stated: answered with the two objects of only id and name,
\* get_accounts yields two Accounts in that order, get_account_by_id("2")
\* returns the second and get_account_by_id("9") returns absence.
C13_ScenarioAsWritten ==
  (last.op \in {"get_accounts", "get_account_by_id"}
     /\ AnsweredAccounts(last.reply) = ScenarioAccounts /\ last.reply.kind = "json")
    => /\ last.exc = NoException
       /\ Len(accounts) = 2
       /\ accounts[1].id = S("1")
       /\ accounts[2].id = S("2")
       /\ (last.op = "get_accounts") => last.value = accounts
       /\ (last.op = "get_account_by_id" /\ last.args.account_id = S("2"))
            => last.value = accounts[2]
       /\ (last.op = "get_account_by_id" /\ last.args.account_id = S("9"))
            => last.value = None

\* C13 amended: answered with two objects of ids "1" and "2" that carry every
\* required Account field, get_accounts yields the two Accounts in that order,
\* get_account_by_id("2") returns the second and get_account_by_id("9")
\* returns absence, from the answer or from the cache it filled; answered with
\* the two objects of only id and name, both operations raise TypeError and
\* the cache stays empty.
C13_ScenarioFullObjects ==
  /\ (last.op \in {"get_accounts", "get_account_by_id"} /\ last.reply.kind = "json"
        /\ IsFullScenario(AnsweredAccounts(last.reply)))
       => LET items == AnsweredAccounts(last.reply)
          IN /\ last.exc = NoException
             /\ accounts = <<New(AccountClass, items[1]), New(AccountClass, items[2])>>
             /\ (last.op = "get_accounts") => last.value = accounts
             /\ (last.op = "get_account_by_id" /\ last.args.account_id = S("2"))
                  => last.value = New(AccountClass, items[2])
             /\ (last.op = "get_account_by_id" /\ last.args.account_id = S("9"))
                  => last.value = None
  /\ (last.op = "get_account_by_id" /\ Len(last.before) = 2
        /\ last.before[1].id = S("1") /\ last.before[2].id = S("2"))
       => /\ last.exc = NoException
          /\ (last.args.account_id = S("2")) => last.value = last.before[2]
          /\ (last.args.account_id = S("9")) => last.value = None
  /\ (last.op \in {"get_accounts", "get_account_by_id"} /\ last.reply.kind = "json"
        /\ AnsweredAccounts(last.reply) = ScenarioAccounts)
       => /\ last.exc = "TypeError"
          /\ accounts = <<>>

C13_Witness ==
  /\ last.op = "get_account_by_id"
  /\ last.args.account_id = S("2")
  /\ last.reply.kind = "json"
  /\ IsFullScenario(AnsweredAccounts(last.reply))
  /\ Len(last.calls) = 1
  /\ last.value = accounts[2]
  /\ last.value.id = S("2")
  /\ last.value.nickname = S("Ops")

\* C14: answered with an object of the keys accountId, requestId, recipientId,
\* memo, paymentMethod, amount, status, request_send_money returns a record
\* that carries those values and does not raise.
C14_SendMoneyReturnsApproval ==
  (last.op = "request_send_money" /\ last.reply.kind = "json"
     /\ DOMAIN last.reply.body = TransactionApprovalRequestClass.fields)
    => /\ last.exc = NoException
       /\ \A f \in TransactionApprovalRequestClass.fields :
            f \in DOMAIN last.value /\ last.value[f] = last.reply.body[f]

C16_AccountRoundTrip ==
  (last.op = "get_accounts" /\ HasAccountsArray(last.reply)
     /\ \A i \in 1..Len(AnsweredAccounts(last.reply)) :
          CanNew(AccountClass, AnsweredAccounts(last.reply)[i]))
    => LET items == AnsweredAccounts(last.reply)
       IN /\ last.exc = NoException
          /\ Len(last.value) = Len(items)
          /\ \A i \in 1..Len(items) :
               /\ DOMAIN last.value[i] = AccountClass.fields
               /\ \A f \in DOMAIN items[i] : last.value[i][f] = items[i][f]
               /\ \A f \in {"canReceiveTransactions", "nickname"} \ DOMAIN items[i] :
                    last.value[i][f] = None

C16_Witness ==
  /\ last.op = "get_accounts"
  /\ last.exc = NoException
  /\ Len(AnsweredAccounts(last.reply)) = 2
  /\ Len(last.value) = 2
  /\ "canReceiveTransactions" \in DOMAIN AnsweredAccounts(last.reply)[1]
  /\ AnsweredAccounts(last.reply)[1].canReceiveTransactions = PyBool(TRUE)
  /\ last.value[1].canReceiveTransactions = PyBool(TRUE)
  /\ last.value[1].nickname = S("Ops")
  /\ "nickname" \notin DOMAIN AnsweredAccounts(last.reply)[2]
  /\ last.value[2].nickname = None

\* C17: when the transport fails during get_accounts, called directly or by
\* get_account_by_id, the caller gets the transport's failure and the cache is
\* empty afterwards; and get_accounts on an empty cache, as it is after such a
\* failure, issues GET {base_url}/api/v1/accounts again.
C17_FailureLeavesCacheEmpty ==
  [][/\ (last'.op \in {"get_accounts", "get_account_by_id"} /\ last'.reply.kind = "error")
          => /\ last'.exc = "RequestException"
             /\ accounts = <<>>
             /\ accounts' = <<>>
     /\ (accounts = <<>> /\ last'.op = "get_accounts")
          => /\ Len(last'.calls) = 1
             /\ last'.calls[1].method = "get"
             /\ last'.calls[1].url = base_url[last'.self].str \o <<"/api/v1/accounts">>]_vars

C17_Witness ==
  /\ last.op = "get_accounts"
  /\ last.self = 2
  /\ last.reply.kind = "error"
  /\ Len(last.calls) = 1
  /\ last.exc = "RequestException"
  /\ accounts = <<>>

\* C18: once the cache is non-empty no operation of any client changes it: it
\* is never cleared, refreshed or extended, and every later get_accounts
\* returns that same sequence, whatever the server would answer now.
C18_CacheNeverInvalidated ==
  [][(accounts # <<>>)
       => /\ accounts' = accounts
          /\ (last'.op = "get_accounts")
               => /\ last'.exc = NoException
                  /\ last'.value = accounts
                  /\ last'.calls = <<>>]_vars

C18_Witness ==
  /\ last.op = "get_accounts"
  /\ last.self = 2
  /\ Len(last.before) = 1
  /\ last.value = last.before
  /\ accounts = last.before

TransactionOps == {"get_transactions", "get_transaction_by_id", "create_transaction"}

\* the Transactions a call returned, and the objects they were built from
ReturnedTransactions ==
  IF last.op = "get_transactions" THEN last.value ELSE <<last.value>>

AnsweredTransactions ==
  IF last.op = "get_transactions" THEN last.reply.body.transactions ELSE <<last.reply.body>>

\* how many sub-fields of a details value are populated
Populated(details) ==
  IF IsNone(details) THEN 0
  ELSE Cardinality({f \in DOMAIN details.dict : ~IsNone(details.dict[f])})

\* C19 as stated: every Transaction returned by get_transactions,
\* get_transaction_by_id or create_transaction has at most one sub-field of
\* its details populated.
C19_DetailsAtMostOne ==
  (last.op \in TransactionOps /\ last.exc = NoException)
    => \A i \in 1..Len(ReturnedTransactions) : Populated(ReturnedTransactions[i].details) <= 1

\* C19 amended: every Transaction returned by these operations has as its
\* details the details value of the answered object, unchanged and unchecked:
\* as many sub-fields populated as the server sent, at most one exactly when
\* the answered object has at most one.
C19_DetailsPassedThrough ==
  (last.op \in TransactionOps /\ last.exc = NoException)
    => /\ Len(ReturnedTransactions) = Len(AnsweredTransactions)
       /\ \A i \in 1..Len(ReturnedTransactions) :
            /\ ReturnedTransactions[i].details = AnsweredTransactions[i].details
            /\ Populated(ReturnedTransactions[i].details)
                 = Populated(AnsweredTransactions[i].details)

C19_Witness ==
  /\ last.op = "get_transaction_by_id"
  /\ last.exc = NoException
  /\ Populated(last.reply.body.details) = 2
  /\ last.value.details = DetailsJson({"debitCardInfo", "creditCardInfo"})

ListOps == {"get_cards", "get_transactions", "get_statements"}

\* the key of the answered object that holds an operation's list
ListKey(op) ==
  CASE op = "get_cards" -> "cards"
    [] op = "get_transactions" -> "transactions"
    [] op = "get_statements" -> "statements"

\* C20: get_cards, get_transactions and get_statements either raise or return
\* exactly one record for each element of the answered array, in the array's
\* order and with each element's values; they never return a shorter list by
\* leaving out elements they could not build.
C20_ListWholeOrRaise ==
  (last.op \in ListOps /\ last.exc = NoException)
    => /\ last.reply.kind = "json"
       /\ ListKey(last.op) \in DOMAIN last.reply.body
       /\ LET items == last.reply.body[ListKey(last.op)]
          IN /\ Len(last.value) = Len(items)
             /\ \A i \in 1..Len(items) :
                  \A f \in DOMAIN items[i] : last.value[i][f] = items[i][f]

C20_Witness ==
  /\ last.op = "get_statements"
  /\ last.exc = NoException
  /\ Len(last.reply.body.statements) = 2
  /\ Len(last.value) = 2
  /\ last.value[1].id = S("2")
  /\ last.value[2].id = S("1")

\* what an operation does in the current state with the given arguments and answer
Outcome(op, self, args, reply) ==
  CASE op = "get_accounts" -> get_accounts(self, reply)
    [] op = "get_account_by_id" -> get_account_by_id(self, args.account_id, reply)
    [] op = "get_cards" -> get_cards(self, args.account_id, reply)
    [] op = "get_transactions" -> get_transactions(self, args.account_id, args.params, reply)
    [] op = "get_transaction_by_id" ->
         get_transaction_by_id(self, args.account_id, args.transaction_id, reply)
    [] op = "get_statements" ->
         get_statements(self, args.account_id, args.start, args.end, reply)
    [] op = "create_transaction" ->
         create_transaction(self, args.account_id, args.transaction, reply)
    [] op = "request_send_money" ->
         request_send_money(self, args.account_id, args.transaction, reply)

C22_AllOrNothing ==
  (last.op \in {"get_accounts", "get_account_by_id"} /\ last.exc # NoException)
    => accounts = last.before

\* C23: the accounts a client returns depend only on answers to requests that
\* carried its own token: no operation on a client constructed with another
\* token changes the accounts that get_accounts / get_account_by_id return on
\* this client.
C23_CredentialIsolation ==
  [][\A c \in DOMAIN _token :
       (last'.op \in PublicOps /\ last'.self # c /\ _token[last'.self] # _token[c])
         => SelfAccounts(c)' = SelfAccounts(c)]_vars

AccountOps == {"get_accounts", "get_account_by_id"}

\* C24: answered with an empty `accounts` array, get_accounts returns the empty
\* list and get_account_by_id returns None after that one GET, and the cache
\* stays empty; and on an empty cache, as it is after such an answer, every
\* get_accounts or get_account_by_id issues exactly one GET
\* {base_url}/api/v1/accounts.
C24_EmptyListNotCached ==
  [][/\ (last'.op \in AccountOps /\ HasAccountsArray(last'.reply)
           /\ AnsweredAccounts(last'.reply) = <<>>)
          => /\ last'.exc = NoException
             /\ Len(last'.calls) = 1
             /\ accounts' = <<>>
             /\ (last'.op = "get_accounts") => last'.value = <<>>
             /\ (last'.op = "get_account_by_id") => last'.value = None
     /\ (accounts = <<>> /\ last'.op \in AccountOps)
          => /\ Len(last'.calls) = 1
             /\ last'.calls[1].method = "get"
             /\ last'.calls[1].url = base_url[last'.self].str \o <<"/api/v1/accounts">>]_vars

C24_Witness ==
  /\ last.op = "get_account_by_id"
  /\ HasAccountsArray(last.reply)
  /\ AnsweredAccounts(last.reply) = <<>>
  /\ Len(last.calls) = 1
  /\ last.value = None
  /\ accounts = <<>>

\* C25: whatever base_url, account_id and parameter values contain, '?' and
\* '?&' included, get_transactions and get_statements request the path, then
\* '?', then the present key=value pairs joined by '&' with every value as it
\* was given; get_statements without dates requests the path as it is.
C25_OnlySeparatorTouched ==
  /\ (last.op = "get_transactions")
       => last.calls[1].url
            = PathOf(last.self, last.args.account_id, "/transactions") \o <<"?">>
                \o JoinPairs(SelectSeq(ParamPairs(last.args.params), IsPresentPair))
  /\ (last.op = "get_statements")
       => LET path == PathOf(last.self, last.args.account_id, "/statements")
              pairs == SelectSeq(<< <<"start", last.args.start>>, <<"end", last.args.end>> >>,
                                 IsPresentPair)
          IN last.calls[1].url
               = IF pairs = <<>> THEN path ELSE path \o <<"?">> \o JoinPairs(pairs)

\* the class an operation builds its records from
ClassOf(op) ==
  CASE op = "get_accounts" -> AccountClass
    [] op = "get_cards" -> CardClass
    [] op = "get_transactions" -> TransactionClass
    [] op = "get_statements" -> StatementClass

KeyOf(op) == IF op = "get_accounts" THEN "accounts" ELSE ListKey(op)

Appenders == {t \in DOMAIN threads : threads[t].appended > 0}

\* some call passed the emptiness test while another call that had passed it
\* had not yet returned
Interleaved == \E t \in DOMAIN threads : threads[t].raced

\* the records of the first n objects of an answer
Built(items, n) == [i \in 1..n |-> New(AccountClass, items[i])]

\* C27: as long as no get_accounts call passes the emptiness test while
\* another call is between that test and its return, at most one GET fills the
\* cache and the cache holds each account of that answer exactly once, in the
\* answer's order, which is what the filling call returns; two calls that
\* both pass the test before either appends fill the cache twice.
C27_SafeWhenSequential ==
  ~Interleaved
    => /\ Cardinality(Appenders) <= 1
       /\ (Appenders = {}) => accounts = <<>>
       /\ \A t \in Appenders : accounts = Built(threads[t].answered, threads[t].appended)
       /\ \A t \in Appenders :
            (threads[t].pc = "done" /\ threads[t].exc = NoException)
              => /\ threads[t].appended = Len(threads[t].answered)
                 /\ threads[t].value = accounts

\* two interleaved calls have both filled the cache: the same account twice
C27_Witness ==
  /\ Interleaved
  /\ \A t \in DOMAIN threads : threads[t].pc = "done" /\ threads[t].exc = NoException
  /\ Cardinality(Appenders) = 2
  /\ Len(accounts) = 2
  /\ accounts[1] = accounts[2]

FrameOps == PublicOps \ AccountOps

\* one call of each operation outside get_accounts / get_account_by_id, an
\* answer to it, and what the operation makes of that answer
FrameCalls ==
  LET json(b) == [kind |-> "json", status |-> 200, body |-> b]
      payload == PyObj(New(NewTransactionPayloadClass,
                           [recipientId |-> S("r1"), amount |-> PyInt(50),
                            idempotencyKey |-> S("k1")]))
  IN {[op |-> "get_cards", args |-> [account_id |-> S("9")],
       reply |-> json("cards" :> <<CardJson("1")>>),
       exc |-> NoException, value |-> <<New(CardClass, CardJson("1"))>>],
      [op |-> "get_transactions", args |-> [account_id |-> S("9"), params |-> TransactionParams],
       reply |-> json("transactions" :> <<TransactionJson("t1")>>),
       exc |-> NoException, value |-> <<New(TransactionClass, TransactionJson("t1"))>>],
      [op |-> "get_transaction_by_id",
       args |-> [account_id |-> S("9"), transaction_id |-> S("t1")],
       reply |-> json(TransactionJson("t1")),
       exc |-> NoException, value |-> New(TransactionClass, TransactionJson("t1"))],
      [op |-> "get_statements", args |-> [account_id |-> S("9"), start |-> None, end |-> None],
       reply |-> json("statements" :> <<StatementJson("1")>>),
       exc |-> NoException, value |-> <<New(StatementClass, StatementJson("1"))>>],
      [op |-> "create_transaction", args |-> [account_id |-> S("9"), transaction |-> payload],
       reply |-> json(TransactionJson("t1")),
       exc |-> NoException, value |-> New(TransactionClass, TransactionJson("t1"))],
      [op |-> "request_send_money", args |-> [account_id |-> S("9"), transaction |-> payload],
       reply |-> json(ApprovalJson),
       exc |-> "TypeError", value |-> None]}

\* in the current state every client makes the same of each of these calls
CacheNotRead ==
  \A c \in DOMAIN _token, p \in FrameCalls :
    LET r == Outcome(p.op, c, p.args, p.reply)
    IN /\ r.exc = p.exc
       /\ r.value = p.value
       /\ Len(r.calls) = 1

\* C28: get_cards, get_transactions, get_transaction_by_id, get_statements,
\* create_transaction and request_send_money leave the account cache as it
\* was, whether they return or raise, and do not depend on it: whatever the
\* cache holds, each of them sends its request and makes the same of the same
\* answer; and no step of any operation changes the token or the base URL of
\* a client.
C28_Frame ==
  /\ []CacheNotRead
  /\ [][/\ \A c \in DOMAIN _token : _token'[c] = _token[c] /\ base_url'[c] = base_url[c]
        /\ (last'.op \in FrameOps) => accounts' = accounts]_vars

C28_Witness ==
  /\ last.op = "create_transaction"
  /\ last.exc = "TypeError"
  /\ Len(last.calls) = 1
  /\ last.before # <<>>
  /\ accounts = last.before

====
